---- MODULE Spec2Model ----
(***************************************************************************)
(* Robot-vs-human image classifier: the confidence resolver of             *)
(* src/src/predict.py, the SQLite prediction store of src/src/database.py  *)
(* and the thin HTTP handlers of src/api/app.py that wrap the store.       *)
(*                                                                         *)
(* Real numbers (raw scores, confidences, query bounds) are fixed-point    *)
(* integers in hundredths: 0.5 is 50, 1.0 is 100.                          *)
(* A timestamp is the TEXT value SQLite stores: a sequence of fields that  *)
(* compares field by field and then by length, as memcmp does on the       *)
(* zero-padded ISO-8601 string.                                            *)
(***************************************************************************)
EXTENDS Integers, Sequences, FiniteSets, TLC

VARIABLES
    rows,             \* table predictions: a set of row records
    sqlite_sequence,  \* AUTOINCREMENT high-water mark of table predictions
    now,              \* the wall clock read by datetime.now(), in sub-second ticks
    assigned,         \* ids handed out by INSERTs, in the order they were handed out
    call,             \* the operation that ran last, with its arguments
    ret,              \* what that operation returned or raised
    resolved,         \* the last result of the confidence resolver
    conns,            \* the open connection of each concurrent caller
    evaluation,       \* the last outcome of evaluate_on_test_set
    uploads           \* the names of the files in the upload folder

vars == <<rows, sqlite_sequence, now, assigned, call, ret, resolved, conns,
          evaluation, uploads>>
storeVars == <<rows, sqlite_sequence, now, assigned, call, ret>>

----------------------------------------------------------------------------
(* Bounds of the model *)

MaxId == 3        \* the store stops accepting INSERTs once this id was assigned
MaxNow == 2       \* last clock tick
SubSec == 2       \* sub-second ticks per second (the microsecond field in small)
DaySecs == 2      \* seconds per day (the 86400 of a day in small)
MaxDays == 2      \* days the clock can reach when whole days may pass
MaxBatch == 2     \* longest batch handed to save_batch_predictions
MaxFiles == 2     \* most entries in one class directory of a test corpus

----------------------------------------------------------------------------
(* Values *)

None == "<None>"  \* Python None / SQL NULL, where a string is expected
NoLimit == <<>>   \* limit=None; a limit of n is <<n>>

Threshold == 50   \* the 0.5 of `prediction > 0.5`
One == 100        \* the 1 of `1 - prediction`, and the 1.0 of the clamp
Zero == 0         \* the 0.0 of the clamp
Dot == 46         \* the '.' isoformat() puts before the microseconds
CharT == 84       \* the 'T' isoformat() puts between date and time
Space == 32       \* the ' ' SQLite's datetime() puts between date and time

RawScores == 0..One

Labels == {"human", "robot"}

\* (filename, predicted_class, confidence) tuples handed to the store; the last
\* one has no filename and violates the NOT NULL constraint of the table
Samples == { <<"a.jpg", "robot", 80>>, <<"b.jpg", "human", 20>>,
             <<None, "robot", 50>> }

\* min_confidence / max_confidence arguments, some outside [0, 1]
Bounds == {-50, 80, 150}
Limits == {NoLimit, <<0>>, <<1>>}

\* Python's two-argument min and max: the first argument wins a tie
pymin(a, b) == IF b < a THEN b ELSE a
pymax(a, b) == IF b > a THEN b ELSE a

----------------------------------------------------------------------------
(* Confidence resolver, src/src/predict.py *)

\* self.class_names, the default of __init__
class_names == [i \in {0, 1} |-> IF i = 0 THEN "human" ELSE "robot"]

\* predict_single with `>=` for `>`
predict_single_ge(prediction) ==
    LET class_idx == IF prediction >= Threshold THEN 1 ELSE 0
    IN  [predicted_class |-> class_names[class_idx],
         confidence |-> IF class_idx = 1 THEN prediction ELSE One - prediction]

predict_single(prediction) ==
    LET class_idx == IF prediction > Threshold THEN 1 ELSE 0
    IN  [predicted_class |-> class_names[class_idx],
         confidence |-> IF class_idx = 1 THEN prediction ELSE One - prediction]

predict_from_array(prediction) ==
    LET class_idx == IF prediction > Threshold THEN 1 ELSE 0
    IN  [predicted_class |-> class_names[class_idx],
         confidence |-> IF class_idx = 1 THEN prediction ELSE One - prediction]

\* get_prediction_with_probabilities reporting the raw score as the confidence
get_prediction_raw_confidence(raw_prediction) ==
    LET prob_robot == raw_prediction
        prob_human == One - raw_prediction
        class_idx == IF raw_prediction > Threshold THEN 1 ELSE 0
    IN  [predicted_class |-> class_names[class_idx],
         confidence |-> prob_robot,
         probabilities |-> [human |-> prob_human, robot |-> prob_robot]]

get_prediction_with_probabilities(raw_prediction) ==
    LET prob_robot == raw_prediction
        prob_human == One - raw_prediction
        class_idx == IF raw_prediction > Threshold THEN 1 ELSE 0
    IN  [predicted_class |-> class_names[class_idx],
         confidence |-> IF class_idx = 1 THEN prob_robot ELSE prob_human,
         probabilities |-> [human |-> prob_human, robot |-> prob_robot]]

----------------------------------------------------------------------------
(* SQLite, as src/src/database.py uses it *)

\* datetime.now().isoformat(): the date, 'T', the time of day in seconds, then
\* '.' and the sub-second field unless that field is zero
isoformat(t) ==
    LET s == t \div SubSec
    IN  <<s \div DaySecs, CharT, s % DaySecs>>
            \o (IF t % SubSec = 0 THEN <<>> ELSE <<Dot, t % SubSec>>)

\* SQLite's datetime('now', '-1 day') at UTC instant t: the date one day back,
\* ' ', the time of day in whole seconds
datetime_now_minus_1_day(t) ==
    LET s == t \div SubSec
    IN  <<(s \div DaySecs) - 1, Space, s % DaySecs>>

Min(a, b) == IF a < b THEN a ELSE b

\* TEXT comparison (BINARY collation): memcmp over the common prefix, then length
TextLess(a, b) ==
    \E k \in 0..Min(Len(a), Len(b)) :
        /\ \A i \in 1..k : a[i] = b[i]
        /\ \/ k = Len(a) /\ k < Len(b)
           \/ k < Len(a) /\ k < Len(b) /\ a[k + 1] < b[k + 1]

TextLeq(a, b) == a = b \/ TextLess(a, b)

\* INSERT INTO predictions (filename, predicted_class, confidence, timestamp)
\* on database db = [rows, seq]: every column is NOT NULL; the id is
\* AUTOINCREMENT, one more than the largest id the table ever held
\* sql_insert on a table declared INTEGER PRIMARY KEY without AUTOINCREMENT:
\* the id is one more than the largest id now in the table
sql_insert_rowid(db, filename, predicted_class, confidence, timestamp) ==
    IF None \in {filename, predicted_class}
    THEN [ok |-> FALSE, rows |-> db.rows, seq |-> db.seq, lastrowid |-> 0]
    ELSE LET used == {r.id : r \in db.rows}
             id == IF used = {} THEN 1
                   ELSE 1 + CHOOSE m \in used : \A o \in used : o <= m
         IN  [ok |-> TRUE,
              rows |-> db.rows \cup {[id |-> id, filename |-> filename,
                                      predicted_class |-> predicted_class,
                                      confidence |-> confidence,
                                      timestamp |-> timestamp]},
              seq |-> id, lastrowid |-> id]

\* sql_insert binding filename and predicted_class in each other's place
sql_insert_swapped(db, filename, predicted_class, confidence, timestamp) ==
    IF None \in {filename, predicted_class}
    THEN [ok |-> FALSE, rows |-> db.rows, seq |-> db.seq, lastrowid |-> 0]
    ELSE LET id == db.seq + 1
         IN  [ok |-> TRUE,
              rows |-> db.rows \cup {[id |-> id, filename |-> predicted_class,
                                      predicted_class |-> filename,
                                      confidence |-> confidence,
                                      timestamp |-> timestamp]},
              seq |-> id, lastrowid |-> id]

\* sql_insert as INSERT ... ON CONFLICT(filename) DO UPDATE: a file that is
\* already stored keeps its row and takes the new values
sql_insert_upsert(db, filename, predicted_class, confidence, timestamp) ==
    IF None \in {filename, predicted_class}
    THEN [ok |-> FALSE, rows |-> db.rows, seq |-> db.seq, lastrowid |-> 0]
    ELSE LET old == {r \in db.rows : r.filename = filename}
             id == IF old = {} THEN db.seq + 1
                   ELSE (CHOOSE r \in old : TRUE).id
         IN  [ok |-> TRUE,
              rows |-> (db.rows \ old)
                           \cup {[id |-> id, filename |-> filename,
                                  predicted_class |-> predicted_class,
                                  confidence |-> confidence,
                                  timestamp |-> timestamp]},
              seq |-> IF old = {} THEN id ELSE db.seq, lastrowid |-> id]

sql_insert(db, filename, predicted_class, confidence, timestamp) ==
    IF None \in {filename, predicted_class}
    THEN [ok |-> FALSE, rows |-> db.rows, seq |-> db.seq, lastrowid |-> 0]
    ELSE LET id == db.seq + 1
         IN  [ok |-> TRUE,
              rows |-> db.rows \cup {[id |-> id, filename |-> filename,
                                      predicted_class |-> predicted_class,
                                      confidence |-> confidence,
                                      timestamp |-> timestamp]},
              seq |-> id, lastrowid |-> id]

\* ORDER BY timestamp DESC, served by a backward scan of idx_timestamp: rows of
\* equal timestamp come out by descending rowid
ComesBefore(a, b) ==
    \/ TextLess(b.timestamp, a.timestamp)
    \/ a.timestamp = b.timestamp /\ a.id > b.id

\* order_by_timestamp_desc without the DESC
RECURSIVE order_by_timestamp_asc(_)
order_by_timestamp_asc(S) ==
    IF S = {} THEN <<>>
    ELSE LET first == CHOOSE r \in S : \A o \in S \ {r} : ComesBefore(o, r)
         IN  <<first>> \o order_by_timestamp_asc(S \ {first})

RECURSIVE order_by_timestamp_desc(_)
order_by_timestamp_desc(S) ==
    IF S = {} THEN <<>>
    ELSE LET first == CHOOSE r \in S : \A o \in S \ {r} : ComesBefore(r, o)
         IN  <<first>> \o order_by_timestamp_desc(S \ {first})

\* `if limit: query += f' LIMIT {limit}'`: None and 0 add no LIMIT clause, and a
\* negative LIMIT is no limit to SQLite
apply_limit(result, limit) ==
    IF limit = NoLimit THEN result
    ELSE IF limit[1] = 0 THEN result
    ELSE IF limit[1] < 0 THEN result
    ELSE SubSeq(result, 1, Min(limit[1], Len(result)))

\* executemany whose rowcount is that of the last INSERT alone
RECURSIVE executemany_last(_, _, _)
executemany_last(db, data, rowcount) ==
    IF data = <<>>
    THEN [ok |-> TRUE, rows |-> db.rows, seq |-> db.seq, rowcount |-> rowcount]
    ELSE LET d == data[1]
             r == sql_insert(db, d[1], d[2], d[3], d[4])
         IN  IF ~r.ok
             THEN [ok |-> FALSE, rows |-> r.rows, seq |-> r.seq, rowcount |-> rowcount]
             ELSE executemany_last([rows |-> r.rows, seq |-> r.seq], Tail(data), 1)

\* cursor.executemany(INSERT ..., data): one INSERT per tuple, stopping at the
\* first that fails; rowcount adds up the rows changed
RECURSIVE executemany(_, _, _)
executemany(db, data, rowcount) ==
    IF data = <<>>
    THEN [ok |-> TRUE, rows |-> db.rows, seq |-> db.seq, rowcount |-> rowcount]
    ELSE LET d == data[1]
             r == sql_insert(db, d[1], d[2], d[3], d[4])
         IN  IF ~r.ok
             THEN [ok |-> FALSE, rows |-> r.rows, seq |-> r.seq, rowcount |-> rowcount]
             ELSE executemany([rows |-> r.rows, seq |-> r.seq], Tail(data), rowcount + 1)

\* sql_delete_by_id with `id <= ?` for `id = ?`
sql_delete_upto_id(db, prediction_id) ==
    LET hit == {r \in db.rows : r.id <= prediction_id}
    IN  [ok |-> TRUE, rows |-> db.rows \ hit, seq |-> db.seq,
         rowcount |-> Cardinality(hit)]

\* DELETE FROM predictions WHERE id = ?
sql_delete_by_id(db, prediction_id) ==
    LET hit == {r \in db.rows : r.id = prediction_id}
    IN  [ok |-> TRUE, rows |-> db.rows \ hit, seq |-> db.seq,
         rowcount |-> Cardinality(hit)]

\* sql_delete_all by the truncate optimisation of an SQLite that does not
\* count the rows it drops
sql_delete_all_uncounted(db) ==
    [ok |-> TRUE, rows |-> {}, seq |-> db.seq, rowcount |-> 0]

\* DELETE FROM predictions: the AUTOINCREMENT counter is kept
sql_delete_all(db) ==
    [ok |-> TRUE, rows |-> {}, seq |-> db.seq, rowcount |-> Cardinality(db.rows)]

\* _get_connection without the rollback of its except branch: what the body
\* did before it raised stays in the file
get_connection_commit(db, tx) ==
    [rows |-> tx.rows, seq |-> tx.seq]

\* _get_connection: commit what the body did, or roll it back when it raised
get_connection(db, tx) ==
    IF tx.ok THEN [rows |-> tx.rows, seq |-> tx.seq] ELSE db

\* The database file as the connection sees it when it opens
Db == [rows |-> rows, seq |-> sqlite_sequence]

----------------------------------------------------------------------------
(* Read operations of PredictionDatabase: the list of row dicts returned *)

get_all_predictions(table, limit) ==
    apply_limit(order_by_timestamp_desc(table), limit)

get_predictions_by_class(table, predicted_class) ==
    order_by_timestamp_desc({r \in table : r.predicted_class = predicted_class})

get_predictions_by_date_range(table, start_date, end_date) ==
    order_by_timestamp_desc({r \in table : /\ TextLeq(start_date, r.timestamp)
                                           /\ TextLeq(r.timestamp, end_date)})

\* get_predictions_by_confidence with `>` and `<` for BETWEEN
get_predictions_by_confidence_open(table, min_confidence, max_confidence, limit) ==
    LET lo == pymax(Zero, pymin(One, min_confidence))
        hi == pymax(Zero, pymin(One, max_confidence))
    IN  apply_limit(
            order_by_timestamp_desc({r \in table : /\ r.confidence > lo
                                                   /\ r.confidence < hi}),
            limit)

get_predictions_by_confidence(table, min_confidence, max_confidence, limit) ==
    LET lo == pymax(Zero, pymin(One, min_confidence))
        hi == pymax(Zero, pymin(One, max_confidence))
    IN  apply_limit(
            order_by_timestamp_desc({r \in table : /\ r.confidence >= lo
                                                   /\ r.confidence <= hi}),
            limit)

NoAverage == <<>>   \* AVG over no rows: SQL NULL; an average a/n is <<a, n>>

RECURSIVE SumConfidence(_)
SumConfidence(S) ==
    IF S = {} THEN 0
    ELSE LET r == CHOOSE r \in S : TRUE
         IN  r.confidence + SumConfidence(S \ {r})

\* get_statistics with MAX(id) for COUNT(*)
get_statistics_maxid(table, utcnow) ==
    LET classes == {r.predicted_class : r \in table}
        ids == {r.id : r \in table}
    IN  [total_predictions |->
             IF ids = {} THEN 0 ELSE CHOOSE i \in ids : \A j \in ids : j <= i,
         predictions_by_class |->
             [c \in classes |-> Cardinality({r \in table : r.predicted_class = c})],
         average_confidence |->
             IF table = {} THEN NoAverage
             ELSE <<SumConfidence(table), Cardinality(table)>>,
         recent_predictions_24h |->
             Cardinality({r \in table :
                 TextLess(datetime_now_minus_1_day(utcnow), r.timestamp)})]

\* get_statistics: utcnow is the UTC instant SQLite reads for 'now'
get_statistics(table, utcnow) ==
    LET classes == {r.predicted_class : r \in table}
    IN  [total_predictions |-> Cardinality(table),
         predictions_by_class |->
             [c \in classes |-> Cardinality({r \in table : r.predicted_class = c})],
         average_confidence |->
             IF table = {} THEN NoAverage
             ELSE <<SumConfidence(table), Cardinality(table)>>,
         recent_predictions_24h |->
             Cardinality({r \in table :
                 TextLess(datetime_now_minus_1_day(utcnow), r.timestamp)})]

----------------------------------------------------------------------------
(* HTTP handlers of src/api/app.py over the store *)

DefaultLimit == 50   \* request.args.get("limit", type=int, default=50)

\* GET /history: limit is NoLimit when the request carries no limit parameter
history(table, limit_arg, min_arg, max_arg) ==
    LET limit == IF limit_arg = NoLimit THEN <<DefaultLimit>> ELSE limit_arg
        min1 == pymax(Zero, pymin(One, min_arg))
        max1 == pymax(Zero, pymin(One, max_arg))
        min_confidence == IF min1 > max1 THEN max1 ELSE min1
        max_confidence == IF min1 > max1 THEN min1 ELSE max1
        predictions == get_predictions_by_confidence(table, min_confidence,
                                                     max_confidence, limit)
    IN  [success |-> TRUE, count |-> Len(predictions),
         filters |-> [min_confidence |-> min_confidence,
                      max_confidence |-> max_confidence],
         predictions |-> predictions]

----------------------------------------------------------------------------
(* State machine: one action per operation *)

Returned(v) == [raised |-> "", value |-> v]
Raised(e) == [raised |-> e, value |-> 0]

\* The callers that may be inside an operation at the same time
Callers == {"c1", "c2"}

Inserts == {"save_prediction", "save_batch_predictions"}

\* A caller that is in no operation
Idle ==
    [pc |-> "idle", op |-> "", params |-> <<>>, timestamp |-> <<>>, todo |-> <<>>,
     view |-> [rows |-> {}, seq |-> 0], out |-> [rowcount |-> 0, lastrowid |-> 0],
     seen |-> {}]

Init ==
    /\ rows = {}
    /\ sqlite_sequence = 0
    /\ now = 0
    /\ assigned = <<>>
    /\ call = [name |-> "__init__", args |-> <<>>, at |-> 0]
    /\ ret = Returned(0)
    /\ resolved = [fn |-> "", raw |-> 0, out |-> <<>>]
    /\ conns = [c \in Callers |-> Idle]
    /\ evaluation = [via |-> "", raised |-> "", status |-> 0, value |-> <<>>,
                     corpus |-> [exists |-> FALSE,
                                 human |-> [exists |-> FALSE, files |-> <<>>],
                                 robot |-> [exists |-> FALSE, files |-> <<>>]]]
    /\ uploads = {}

\* The wall clock moves on between operations
Tick ==
    /\ now < MaxNow
    /\ now' = now + 1
    /\ UNCHANGED <<rows, sqlite_sequence, assigned, call, ret, resolved, conns, evaluation, uploads>>

\* The ids of the rows in S, in the order the INSERTs handed them out
RECURSIVE IdsOf(_)
IdsOf(S) ==
    IF S = {} THEN <<>>
    ELSE LET first == CHOOSE r \in S : \A o \in S : r.id <= o.id
         IN  <<first.id>> \o IdsOf(S \ {first})

\* save_prediction called with one of the argument tuples in S
save_prediction_of(S) ==
    \E s \in S :
        LET timestamp == isoformat(now)
            tx == sql_insert(Db, s[1], s[2], s[3], timestamp)
            db == get_connection(Db, tx)
        IN  /\ sqlite_sequence < MaxId
            /\ call' = [name |-> "save_prediction", args |-> s, at |-> now]
            /\ rows' = db.rows
            /\ sqlite_sequence' = db.seq
            /\ assigned' = IF tx.ok THEN Append(assigned, tx.lastrowid) ELSE assigned
            /\ ret' = IF tx.ok THEN Returned(tx.lastrowid)
                               ELSE Raised("IntegrityError")
            /\ UNCHANGED <<now, resolved, conns, evaluation, uploads>>

save_prediction == save_prediction_of(Samples)

RECURSIVE SeqsUpTo(_, _)
SeqsUpTo(S, n) ==
    IF n = 0 THEN {<<>>}
    ELSE LET shorter == SeqsUpTo(S, n - 1)
         IN  shorter \cup {Append(q, x) : q \in shorter, x \in S}

\* save_batch_predictions called with a list of argument tuples from S
save_batch_predictions_of(S) ==
    \E predictions \in SeqsUpTo(S, MaxBatch) :
        LET timestamp == isoformat(now)
            data == [i \in 1..Len(predictions) |->
                        <<predictions[i][1], predictions[i][2],
                          predictions[i][3], timestamp>>]
            tx == executemany(Db, data, 0)
            db == get_connection(Db, tx)
        IN  /\ sqlite_sequence + Len(predictions) <= MaxId
            /\ call' = [name |-> "save_batch_predictions", args |-> predictions,
                        at |-> now]
            /\ rows' = db.rows
            /\ sqlite_sequence' = db.seq
            /\ assigned' = IF tx.ok THEN assigned \o IdsOf(tx.rows \ rows)
                                    ELSE assigned
            /\ ret' = IF tx.ok THEN Returned(tx.rowcount)
                               ELSE Raised("IntegrityError")
            /\ UNCHANGED <<now, resolved, conns, evaluation, uploads>>

save_batch_predictions == save_batch_predictions_of(Samples)

delete_prediction ==
    \E prediction_id \in 1..MaxId :
        LET tx == sql_delete_by_id(Db, prediction_id)
            db == get_connection(Db, tx)
        IN  /\ call' = [name |-> "delete_prediction", args |-> <<prediction_id>>,
                        at |-> now]
            /\ rows' = db.rows
            /\ sqlite_sequence' = db.seq
            /\ ret' = Returned(tx.rowcount > 0)
            /\ UNCHANGED <<now, assigned, resolved, conns, evaluation, uploads>>

clear_all_predictions ==
    LET tx == sql_delete_all(Db)
        db == get_connection(Db, tx)
    IN  /\ call' = [name |-> "clear_all_predictions", args |-> <<>>, at |-> now]
        /\ rows' = db.rows
        /\ sqlite_sequence' = db.seq
        /\ ret' = Returned(tx.rowcount)
        /\ UNCHANGED <<now, assigned, resolved, conns, evaluation, uploads>>

\* DELETE /prediction/<id>: 200 when the store deleted a record, 404 otherwise
api_delete_prediction ==
    \E prediction_id \in 1..MaxId :
        LET tx == sql_delete_by_id(Db, prediction_id)
            db == get_connection(Db, tx)
            success == tx.rowcount > 0
        IN  /\ call' = [name |-> "DELETE /prediction", args |-> <<prediction_id>>,
                        at |-> now]
            /\ rows' = db.rows
            /\ sqlite_sequence' = db.seq
            /\ ret' = Returned([success |-> success,
                                status |-> IF success THEN 200 ELSE 404])
            /\ UNCHANGED <<now, assigned, resolved, conns, evaluation, uploads>>

\* sqlite3.Error raised inside the with block: by the statement, before it
\* changed anything (applied = FALSE), or by conn.commit() after it (TRUE)
sqlite3_Error(db, tx, applied) ==
    IF applied THEN [tx EXCEPT !.ok = FALSE]
    ELSE [tx EXCEPT !.ok = FALSE, !.rows = db.rows, !.seq = db.seq]

\* The write operations when the storage layer fails under them
save_prediction_error ==
    \E s \in Samples, applied \in BOOLEAN :
        LET timestamp == isoformat(now)
            tx == sqlite3_Error(Db, sql_insert(Db, s[1], s[2], s[3], timestamp),
                                applied)
            db == get_connection(Db, tx)
        IN  /\ sqlite_sequence < MaxId
            /\ call' = [name |-> "save_prediction", args |-> s, at |-> now]
            /\ rows' = db.rows
            /\ sqlite_sequence' = db.seq
            /\ ret' = IF tx.ok THEN Returned(tx.lastrowid)
                               ELSE Raised("OperationalError")
            /\ UNCHANGED <<now, assigned, resolved, conns, evaluation, uploads>>

\* Batches of two tuples, the first one valid
Batches == {q \in SeqsUpTo(Samples, 2) : Len(q) = 2 /\ q[1][1] # None}

\* executemany fails after `done` of its INSERTs
save_batch_predictions_error ==
    \E predictions \in Batches :
        \E done \in 0..Len(predictions) :
            LET timestamp == isoformat(now)
                data == [i \in 1..Len(predictions) |->
                            <<predictions[i][1], predictions[i][2],
                              predictions[i][3], timestamp>>]
                tx == sqlite3_Error(Db, executemany(Db, SubSeq(data, 1, done), 0),
                                    TRUE)
                db == get_connection(Db, tx)
            IN  /\ sqlite_sequence + Len(predictions) <= MaxId
                /\ call' = [name |-> "save_batch_predictions",
                            args |-> predictions, at |-> now]
                /\ rows' = db.rows
                /\ sqlite_sequence' = db.seq
                /\ ret' = IF tx.ok THEN Returned(tx.rowcount)
                                   ELSE Raised("OperationalError")
                /\ UNCHANGED <<now, assigned, resolved, conns, evaluation, uploads>>

delete_prediction_error ==
    \E prediction_id \in 1..MaxId, applied \in BOOLEAN :
        LET tx == sqlite3_Error(Db, sql_delete_by_id(Db, prediction_id), applied)
            db == get_connection(Db, tx)
        IN  /\ call' = [name |-> "delete_prediction", args |-> <<prediction_id>>,
                        at |-> now]
            /\ rows' = db.rows
            /\ sqlite_sequence' = db.seq
            /\ ret' = IF tx.ok THEN Returned(tx.rowcount > 0)
                               ELSE Raised("OperationalError")
            /\ UNCHANGED <<now, assigned, resolved, conns, evaluation, uploads>>

clear_all_predictions_error ==
    \E applied \in BOOLEAN :
        LET tx == sqlite3_Error(Db, sql_delete_all(Db), applied)
            db == get_connection(Db, tx)
        IN  /\ call' = [name |-> "clear_all_predictions", args |-> <<>>,
                        at |-> now]
            /\ rows' = db.rows
            /\ sqlite_sequence' = db.seq
            /\ ret' = IF tx.ok THEN Returned(tx.rowcount)
                               ELSE Raised("OperationalError")
            /\ UNCHANGED <<now, assigned, resolved, conns, evaluation, uploads>>

Read(name, args, value) ==
    /\ call' = [name |-> name, args |-> args, at |-> now]
    /\ ret' = Returned(value)
    /\ UNCHANGED <<rows, sqlite_sequence, now, assigned, resolved, conns, evaluation, uploads>>

query_all ==
    \E limit \in Limits :
        Read("get_all_predictions", <<limit>>, get_all_predictions(rows, limit))

query_by_class ==
    \E c \in Labels :
        Read("get_predictions_by_class", <<c>>, get_predictions_by_class(rows, c))

\* start_date / end_date arguments: an instant with a sub-second field and
\* the last one of the clock
Texts == {isoformat(1), isoformat(MaxNow)}

query_by_date_range ==
    \E start_date \in Texts, end_date \in Texts :
        Read("get_predictions_by_date_range", <<start_date, end_date>>,
             get_predictions_by_date_range(rows, start_date, end_date))

query_by_confidence ==
    \E lo \in Bounds, hi \in Bounds, limit \in {NoLimit} :
        Read("get_predictions_by_confidence", <<lo, hi, limit>>,
             get_predictions_by_confidence(rows, lo, hi, limit))

query_history ==
    \E lo \in {-50, 150}, hi \in {-50, 150}, limit \in {NoLimit} :
        Read("GET /history", <<lo, hi, limit>>, history(rows, limit, lo, hi))

\* Seconds by which the local clock of datetime.now() is ahead of UTC
UtcOffsets == {-1, 0, 1}

Next ==
    \/ Tick
    \/ save_prediction
    \/ save_batch_predictions
    \/ delete_prediction
    \/ clear_all_predictions
    \/ api_delete_prediction
    \/ query_all
    \/ query_by_class
    \/ query_by_date_range
    \/ query_by_confidence
    \/ query_history

Spec == Init /\ [][Next]_vars

\* The operations that write the store, without the reads between them
NextWrite ==
    \/ Tick
    \/ save_prediction
    \/ save_batch_predictions
    \/ delete_prediction
    \/ clear_all_predictions
    \/ api_delete_prediction

SpecWrite == Init /\ [][NextWrite]_vars

\* The writes, each of which may fail in the storage layer
NextError ==
    \/ NextWrite
    \/ save_prediction_error
    \/ save_batch_predictions_error
    \/ delete_prediction_error
    \/ clear_all_predictions_error

SpecError == Init /\ [][NextError]_vars

\* Argument tuples the store is handed without any check of its own: the
\* (image_path, 'error', 0.0) that predict_batch yields for an unreadable
\* image, and a confidence above 1
Unchecked == { <<"c.jpg", "error", 0>>, <<"d.jpg", "robot", 150>> }

save_prediction_any == save_prediction_of(Samples \cup Unchecked)

save_batch_predictions_any == save_batch_predictions_of(Samples \cup Unchecked)

\* The store under callers that pass any (filename, class, confidence)
NextAny ==
    \/ save_prediction_any
    \/ save_batch_predictions_any
    \/ delete_prediction
    \/ clear_all_predictions

SpecAny == Init /\ [][NextAny]_vars

\* Any stretch of time passes between two operations
Sleep ==
    /\ now < MaxDays * DaySecs * SubSec - 1
    /\ \E t \in (now + 1)..(MaxDays * DaySecs * SubSec - 1) : now' = t
    /\ UNCHANGED <<rows, sqlite_sequence, assigned, call, ret, resolved, conns,
                   evaluation, uploads>>

----------------------------------------------------------------------------
(* Concurrent callers: every operation opens its own connection to the one
   database file, so the steps of two calls interleave statement by statement.
   A connection's changes stay in its own view until conn.commit() *)

\* INSERTs the operations in progress may still run
Pending == LET n(c) == IF conns[c].op \in Inserts THEN Len(conns[c].todo) ELSE 0
           IN  n("c1") + n("c2")

\* A write operation up to its `with self._get_connection()`: the arguments
\* and the statements to run; the inserts have read the clock by then
Enter(c, op, args, timestamp, todo) ==
    /\ conns[c].pc = "idle"
    /\ conns' = [conns EXCEPT ![c] = [Idle EXCEPT !.pc = "connected", !.op = op,
                                                    !.params = args, !.todo = todo,
                                                    !.timestamp = timestamp]]
    /\ UNCHANGED <<rows, sqlite_sequence, now, assigned, call, ret, resolved,
                   evaluation, uploads>>

enter_save_prediction_of(c, S) ==
    \E s \in S :
        /\ sqlite_sequence + Pending < MaxId
        /\ Enter(c, "save_prediction", s, isoformat(now),
                 << <<s[1], s[2], s[3], isoformat(now)>> >>)

enter_save_prediction(c) == enter_save_prediction_of(c, Samples)

enter_save_batch_predictions(c) ==
    \E predictions \in Batches :
        /\ sqlite_sequence + Pending + Len(predictions) <= MaxId
        /\ Enter(c, "save_batch_predictions", predictions, isoformat(now),
                 [i \in 1..Len(predictions) |->
                     <<predictions[i][1], predictions[i][2], predictions[i][3],
                       isoformat(now)>>])

enter_delete_prediction(c) ==
    \E prediction_id \in 1..MaxId :
        Enter(c, "delete_prediction", <<prediction_id>>, <<>>,
              << <<prediction_id>> >>)

enter_clear_all_predictions(c) ==
    Enter(c, "clear_all_predictions", <<>>, <<>>, << <<>> >>)

\* A connection may start writing (take SQLite's RESERVED lock) with every
\* other connection or with none of them in a write transaction
reserved_lock_shared(cs, c) == TRUE

\* A connection may start writing (take SQLite's RESERVED lock) only while no
\* other connection is in a write transaction
reserved_lock_free(cs, c) ==
    \A o \in Callers \ {c} : cs[o].pc # "writing"

\* The statement at the head of todo, run on what the connection sees
statement(op, db, d) ==
    IF op \in Inserts
    THEN LET r == sql_insert(db, d[1], d[2], d[3], d[4])
         IN  [ok |-> r.ok, rows |-> r.rows, seq |-> r.seq,
              rowcount |-> IF r.ok THEN 1 ELSE 0, lastrowid |-> r.lastrowid]
    ELSE LET r == IF op = "delete_prediction" THEN sql_delete_by_id(db, d[1])
                  ELSE sql_delete_all(db)
         IN  [ok |-> r.ok, rows |-> r.rows, seq |-> r.seq,
              rowcount |-> r.rowcount, lastrowid |-> 0]

\* What the operation hands back after its commit
return_value(op, out) ==
    IF op = "save_prediction" THEN out.lastrowid
    ELSE IF op = "delete_prediction" THEN out.rowcount > 0
    ELSE out.rowcount

\* The committed stores a reader in progress has had before it
Witnessed(cs, table) ==
    [c \in Callers |->
        IF cs[c].pc = "reading" THEN [cs[c] EXCEPT !.seen = @ \cup {table}]
        ELSE cs[c]]

\* cursor.execute / one round of executemany: the first statement of the
\* connection opens the write transaction on the committed file; a statement
\* that fails sends the operation to the except branch (rollback, raise)
execute(c) ==
    LET conn == conns[c]
        db == IF conn.pc = "connected" THEN Db ELSE conn.view
        r == statement(conn.op, db, Head(conn.todo))
    IN  /\ conn.pc \in {"connected", "writing"}
        /\ conn.todo # <<>>
        /\ conn.pc = "connected" => reserved_lock_free(conns, c)
        /\ IF r.ok
           THEN /\ conns' = [conns EXCEPT ![c] =
                       [conn EXCEPT !.pc = "writing", !.todo = Tail(conn.todo),
                                    !.view = [rows |-> r.rows, seq |-> r.seq],
                                    !.out = [rowcount |-> conn.out.rowcount + r.rowcount,
                                             lastrowid |-> r.lastrowid]]]
                /\ UNCHANGED <<call, ret>>
           ELSE /\ conns' = [conns EXCEPT ![c] = Idle]
                /\ call' = [name |-> conn.op, args |-> conn.params, at |-> now]
                /\ ret' = Raised("IntegrityError")
        /\ UNCHANGED <<rows, sqlite_sequence, now, assigned, resolved, evaluation, uploads>>

\* The busy timeout runs out while another connection holds the write lock:
\* sqlite3.OperationalError('database is locked') leaves the with block
busy_timeout(c) ==
    LET conn == conns[c]
    IN  /\ conn.pc = "connected"
        /\ conn.todo # <<>>
        /\ ~reserved_lock_free(conns, c)
        /\ conns' = [conns EXCEPT ![c] = Idle]
        /\ call' = [name |-> conn.op, args |-> conn.params, at |-> now]
        /\ ret' = Raised("OperationalError")
        /\ UNCHANGED <<rows, sqlite_sequence, now, assigned, resolved, evaluation, uploads>>

\* conn.commit() and the return: the connection's view becomes the file
commit(c) ==
    LET conn == conns[c]
        db == IF conn.pc = "connected" THEN Db ELSE conn.view
    IN  /\ conn.pc \in {"connected", "writing"}
        /\ conn.todo = <<>>
        /\ rows' = db.rows
        /\ sqlite_sequence' = db.seq
        /\ assigned' = IF conn.op \in Inserts THEN assigned \o IdsOf(db.rows \ rows)
                       ELSE assigned
        /\ conns' = Witnessed([conns EXCEPT ![c] = Idle], db)
        /\ call' = [name |-> conn.op, args |-> conn.params, at |-> now]
        /\ ret' = Returned(return_value(conn.op, conn.out))
        /\ UNCHANGED <<now, resolved, evaluation, uploads>>

\* get_statistics, one SELECT at a time: each reads the committed file as it
\* is at that moment (no transaction spans the four statements)
Select(c, from, to, out) ==
    /\ conns[c].pc = from
    /\ conns' = [conns EXCEPT ![c] =
                    IF to = "idle" THEN Idle
                    ELSE [conns[c] EXCEPT !.pc = "reading", !.op = to, !.out = out,
                                          !.seen = IF from = "idle" THEN {Db}
                                                   ELSE @]]
    /\ UNCHANGED <<rows, sqlite_sequence, now, assigned, resolved, evaluation, uploads>>

NoStatistics ==
    [total_predictions |-> 0, predictions_by_class |-> <<>>,
     average_confidence |-> NoAverage, recent_predictions_24h |-> 0]

select_total(c) ==
    /\ Select(c, "idle", "by_class",
              [NoStatistics EXCEPT !.total_predictions =
                   get_statistics(rows, now).total_predictions])
    /\ UNCHANGED <<call, ret>>

select_by_class(c) ==
    /\ conns[c].op = "by_class"
    /\ Select(c, "reading", "average",
              [conns[c].out EXCEPT !.predictions_by_class =
                   get_statistics(rows, now).predictions_by_class])
    /\ UNCHANGED <<call, ret>>

select_average(c) ==
    /\ conns[c].op = "average"
    /\ Select(c, "reading", "recent",
              [conns[c].out EXCEPT !.average_confidence =
                   get_statistics(rows, now).average_confidence])
    /\ UNCHANGED <<call, ret>>

\* The last SELECT compares with SQLite's UTC clock; get_statistics returns
select_recent(c) ==
    \E utcoffset \in UtcOffsets :
        /\ conns[c].op = "recent"
        /\ Select(c, "reading", "idle", <<>>)
        /\ call' = [name |-> "get_statistics", args |-> <<utcoffset>>, at |-> now]
        /\ ret' = Returned([conns[c].out EXCEPT !.recent_predictions_24h =
                                get_statistics(rows, now - utcoffset * SubSec)
                                    .recent_predictions_24h])

\* The steps of concurrent writers
NextWriters ==
    \E c \in Callers :
        \/ enter_save_prediction(c)
        \/ enter_save_batch_predictions(c)
        \/ enter_delete_prediction(c)
        \/ enter_clear_all_predictions(c)
        \/ execute(c)
        \/ busy_timeout(c)
        \/ commit(c)

SpecWriters == Init /\ [][NextWriters]_vars

\* One writer among callers that read: the list queries are one SELECT each
NextReaders ==
    \/ enter_save_batch_predictions("c1")
    \/ enter_clear_all_predictions("c1")
    \/ execute("c1")
    \/ commit("c1")
    \/ select_total("c2")
    \/ select_by_class("c2")
    \/ select_average("c2")
    \/ select_recent("c2")
    \/ query_all

SpecReaders == Init /\ [][NextReaders]_vars

\* The statistics read while the store is written: each write commits in one
\* step, which may fall between two SELECTs of the read
NextStats ==
    \/ save_prediction
    \/ save_batch_predictions
    \/ delete_prediction
    \/ clear_all_predictions
    \/ select_total("c2")
    \/ select_by_class("c2")
    \/ select_average("c2")
    \/ select_recent("c2")

SpecStats == Init /\ [][NextStats]_vars

\* Inserts and statistics over several days: the clock and the reader may
\* move between an insert's clock read and its commit
NextDay ==
    \/ Sleep
    \/ enter_save_prediction_of("c1", {<<"a.jpg", "robot", 80>>})
    \/ execute("c1")
    \/ commit("c1")
    \/ select_total("c2")
    \/ select_by_class("c2")
    \/ select_average("c2")
    \/ select_recent("c2")

SpecDay == Init /\ [][NextDay]_vars

\* Concurrent inserts while the clock moves on
NextClock ==
    \/ Tick
    \/ \E c \in Callers :
           \/ enter_save_prediction(c)
           \/ enter_save_batch_predictions(c)
           \/ execute(c)
           \/ busy_timeout(c)
           \/ commit(c)

SpecClock == Init /\ [][NextClock]_vars

----------------------------------------------------------------------------
(* The resolver on its own: each entry point applied to a raw score *)

Resolve(fn, r, out) ==
    /\ resolved' = [fn |-> fn, raw |-> r, out |-> out]
    /\ UNCHANGED <<storeVars, conns, evaluation, uploads>>

resolve_predict_single ==
    \E r \in RawScores : Resolve("predict_single", r, predict_single(r))

resolve_predict_from_array ==
    \E r \in RawScores : Resolve("predict_from_array", r, predict_from_array(r))

resolve_with_probabilities ==
    \E r \in RawScores :
        Resolve("get_prediction_with_probabilities", r,
                get_prediction_with_probabilities(r))

NextResolver ==
    \/ resolve_predict_single
    \/ resolve_predict_from_array
    \/ resolve_with_probabilities

SpecResolver == Init /\ [][NextResolver]_vars

----------------------------------------------------------------------------
(* Evaluation on a test corpus: evaluate_on_test_set of src/src/predict.py and
   the POST /analytics/evaluate handler of src/api/app.py. Ratios are kept
   exact, as <<numerator, denominator>> *)

\* Raw scores the classifier gives the images of a corpus
EvalScores == {20, 60, 80, 90}

\* What a class directory can hold: a subdirectory, a file that fails
\* validate_image_format, a file that passes it but cannot be loaded, an image
DirEntries ==
    {[kind |-> k, score |-> 0] : k \in {"directory", "invalid", "unreadable"}}
        \cup {[kind |-> "image", score |-> r] : r \in EvalScores}

NoDirectory == [exists |-> FALSE, files |-> <<>>]

\* One `for filename in os.listdir(...)` loop: the results of the files that
\* pass the check and whose prediction does not raise
RECURSIVE process_directory(_, _)
process_directory(files, true_class) ==
    IF files = <<>> THEN <<>>
    ELSE LET f == Head(files)
             rest == process_directory(Tail(files), true_class)
         IN  IF f.kind \in {"directory", "invalid"} THEN rest
             ELSE IF f.kind = "unreadable" THEN rest
             ELSE LET pred_data == get_prediction_with_probabilities(f.score)
                  IN  <<[true_class |-> true_class,
                         predicted_class |-> pred_data.predicted_class,
                         confidence |-> pred_data.confidence,
                         probabilities |-> pred_data.probabilities]>> \o rest

\* Number of results with the given true and predicted label
Tally(results, true_class, predicted_class) ==
    Cardinality({i \in 1..Len(results) :
                    /\ results[i].true_class = true_class
                    /\ results[i].predicted_class = predicted_class})

\* sklearn accuracy_score
accuracy_score(results) ==
    <<Cardinality({i \in 1..Len(results) :
                      results[i].true_class = results[i].predicted_class}),
      Len(results)>>

\* confusion_matrix with rows for the predicted label
confusion_matrix_by_prediction(results, classes) ==
    [i \in 1..Len(classes) |->
        [j \in 1..Len(classes) |-> Tally(results, classes[j], classes[i])]]

\* sklearn confusion_matrix(y_true, y_pred, labels=classes)
confusion_matrix(results, classes) ==
    [i \in 1..Len(classes) |->
        [j \in 1..Len(classes) |-> Tally(results, classes[i], classes[j])]]

\* classification_report dividing by the support for the precision and by
\* the predicted count for the recall
classification_report_swapped(results, classes, zero_division) ==
    [c \in {classes[k] : k \in 1..Len(classes)} |->
        LET tp == Tally(results, c, c)
            predicted == Cardinality({i \in 1..Len(results) :
                                         results[i].predicted_class = c})
            support == Cardinality({i \in 1..Len(results) :
                                       results[i].true_class = c})
        IN  [precision |-> IF support = 0 THEN <<zero_division, 1>>
                           ELSE <<tp, support>>,
             recall |-> IF predicted = 0 THEN <<zero_division, 1>>
                        ELSE <<tp, predicted>>,
             f1_score |-> IF predicted + support = 0 THEN <<zero_division, 1>>
                          ELSE <<2 * tp, predicted + support>>,
             support |-> support]]

\* sklearn classification_report(labels=classes, output_dict=True,
\* zero_division=...): the entries of the two classes
classification_report(results, classes, zero_division) ==
    [c \in {classes[k] : k \in 1..Len(classes)} |->
        LET tp == Tally(results, c, c)
            predicted == Cardinality({i \in 1..Len(results) :
                                         results[i].predicted_class = c})
            support == Cardinality({i \in 1..Len(results) :
                                       results[i].true_class = c})
        IN  [precision |-> IF predicted = 0 THEN <<zero_division, 1>>
                           ELSE <<tp, predicted>>,
             recall |-> IF support = 0 THEN <<zero_division, 1>>
                        ELSE <<tp, support>>,
             f1_score |-> IF predicted + support = 0 THEN <<zero_division, 1>>
                          ELSE <<2 * tp, predicted + support>>,
             support |-> support]]

\* SumProbability adding up the samples of both true classes
RECURSIVE SumProbability_all(_, _, _)
SumProbability_all(results, true_class, of) ==
    IF results = <<>> THEN 0
    ELSE Head(results).probabilities[of]
             + SumProbability_all(Tail(results), true_class, of)

RECURSIVE SumProbability(_, _, _)
SumProbability(results, true_class, of) ==
    IF results = <<>> THEN 0
    ELSE (IF Head(results).true_class = true_class
          THEN Head(results).probabilities[of] ELSE 0)
             + SumProbability(Tail(results), true_class, of)

\* `if not all_true_labels` as `if a class has no label`
no_valid_test_images_either(all_true_labels) ==
    \E c \in {"human", "robot"} :
        \A i \in 1..Len(all_true_labels) : all_true_labels[i].true_class # c

\* `if not all_true_labels`: nothing was processed
no_valid_test_images(all_true_labels) == all_true_labels = <<>>

evaluate_on_test_set(human_dir, robot_dir) ==
    LET results == process_directory(human_dir.files, "human")
                       \o process_directory(robot_dir.files, "robot")
        classes == <<"human", "robot">>
        human_count == Cardinality({i \in 1..Len(results) :
                                       results[i].true_class = "human"})
        robot_count == Cardinality({i \in 1..Len(results) :
                                       results[i].true_class = "robot"})
        average(t, of) == IF (IF t = "human" THEN human_count ELSE robot_count) > 0
                          THEN <<SumProbability(results, t, of),
                                 IF t = "human" THEN human_count ELSE robot_count>>
                          ELSE <<0, 1>>
        cm == confusion_matrix(results, classes)
        report == classification_report(results, classes, 0)
    IN  IF no_valid_test_images(results)
        THEN [raised |-> "ValueError", value |-> <<>>]
        ELSE [raised |-> "",
              value |-> [accuracy |-> accuracy_score(results),
                         total_samples |-> Len(results),
                         human_samples |-> human_count,
                         robot_samples |-> robot_count,
                         confusion_matrix |->
                             [labels |-> classes,
                              matrix |-> cm,
                              true_human_predicted_human |-> cm[1][1],
                              true_human_predicted_robot |-> cm[1][2],
                              true_robot_predicted_human |-> cm[2][1],
                              true_robot_predicted_robot |-> cm[2][2]],
                         per_class_metrics |-> report,
                         average_probabilities |->
                             [t \in {"human", "robot"} |->
                                 [of \in {"human", "robot"} |-> average(t, of)]],
                         detailed_results |-> results]]

\* The test corpus on disk changes: no result belongs to the new corpus yet
Stage(corpus) ==
    /\ evaluation' = [via |-> "", corpus |-> corpus, raised |-> "", status |-> 0,
                      value |-> <<>>]
    /\ UNCHANGED <<storeVars, resolved, conns, uploads>>

\* test_dir, then its class directories, are created
makedirs ==
    LET corpus == evaluation.corpus
    IN  \/ /\ ~corpus.exists
           /\ Stage([corpus EXCEPT !.exists = TRUE])
        \/ \E c \in Labels :
               /\ corpus.exists
               /\ ~corpus[c].exists
               /\ Stage([corpus EXCEPT ![c] = [exists |-> TRUE, files |-> <<>>]])

\* One more entry appears in a class directory; os.listdir returns the
\* entries in arbitrary order, so the new one may come at any place of the
\* listing
add_test_file ==
    LET corpus == evaluation.corpus
    IN  \E c \in Labels, f \in DirEntries :
            /\ corpus[c].exists
            /\ Len(corpus[c].files) < MaxFiles
            /\ \E place \in 0..Len(corpus[c].files) :
                   Stage([corpus EXCEPT ![c].files =
                              SubSeq(@, 1, place) \o <<f>>
                                  \o SubSeq(@, place + 1, Len(@))])

\* predictor.evaluate_on_test_set(test_dir)
evaluate ==
    LET corpus == evaluation.corpus
        r == evaluate_on_test_set(corpus.human, corpus.robot)
    IN  /\ evaluation' = [via |-> "evaluate_on_test_set", corpus |-> corpus,
                          raised |-> r.raised, status |-> 0, value |-> r.value]
        /\ UNCHANGED <<storeVars, resolved, conns, uploads>>

\* POST /analytics/evaluate: 404 when test_dir does not exist, 500 when the
\* evaluation raises, else 200 with the evaluation
evaluate_model ==
    LET corpus == evaluation.corpus
        r == evaluate_on_test_set(corpus.human, corpus.robot)
    IN  /\ evaluation' = [via |-> "POST /analytics/evaluate", corpus |-> corpus,
                          raised |-> "",
                          status |-> IF ~corpus.exists THEN 404
                                     ELSE IF r.raised # "" THEN 500 ELSE 200,
                          value |-> IF corpus.exists /\ r.raised = "" THEN r.value
                                    ELSE <<>>]
        /\ UNCHANGED <<storeVars, resolved, conns, uploads>>

NextEval ==
    \/ makedirs
    \/ add_test_file
    \/ evaluate
    \/ evaluate_model

SpecEval == Init /\ [][NextEval]_vars

----------------------------------------------------------------------------
(* The analytics views of src/api/app.py and the strength line of the CLI *)

VeryHigh == 90      \* if conf >= 0.9
High == 75          \* elif conf >= 0.75
Moderate == 60      \* elif conf >= 0.6

Buckets == {"very_high", "high", "moderate", "low"}

\* The if / elif chain of confidence_distribution over one record's confidence
confidence_bucket(conf) ==
    IF conf >= VeryHigh THEN "very_high"
    ELSE IF conf >= High THEN "high"
    ELSE IF conf >= Moderate THEN "moderate"
    ELSE "low"

\* GET /analytics/confidence-distribution over the list get_all_predictions
\* returned: by_class has the keys 'human' and 'robot' only, so a record of
\* another class raises KeyError, which the handler turns into a 500
confidence_distribution(predictions) ==
    LET idx == 1..Len(predictions)
        by_class_keys == Labels
        total_confidence ==
            SumConfidence({predictions[i] : i \in idx})
    IN  IF predictions = <<>>
        THEN [status |-> 200, success |-> TRUE, total |-> 0,
              distribution |-> [b \in Buckets |-> 0],
              by_class |-> [c \in by_class_keys |-> [b \in Buckets |-> 0]],
              average_confidence |-> <<0, 1>>]
        ELSE IF \E i \in idx : predictions[i].predicted_class \notin by_class_keys
        THEN [status |-> 500, error |-> "KeyError"]
        ELSE [status |-> 200, success |-> TRUE, total |-> Len(predictions),
              distribution |->
                  [b \in Buckets |->
                      Cardinality({i \in idx :
                          confidence_bucket(predictions[i].confidence) = b})],
              by_class |->
                  [c \in by_class_keys |-> [b \in Buckets |->
                      Cardinality({i \in idx :
                          /\ predictions[i].predicted_class = c
                          /\ confidence_bucket(predictions[i].confidence) = b})]],
              average_confidence |-> <<total_confidence, Len(predictions)>>]

\* GET /analytics/class-distribution; a percentage count / total * 100 is the
\* fraction <<count * 100, total>>
class_distribution(predictions) ==
    LET idx == 1..Len(predictions)
        human_count ==
            Cardinality({i \in idx : predictions[i].predicted_class = "human"})
        robot_count ==
            Cardinality({i \in idx : predictions[i].predicted_class = "robot"})
        total == Len(predictions)
        human_percent == IF total > 0 THEN <<human_count * 100, total>> ELSE <<0, 1>>
        robot_percent == IF total > 0 THEN <<robot_count * 100, total>> ELSE <<0, 1>>
    IN  [status |-> 200, success |-> TRUE, total |-> total,
         human |-> [count |-> human_count, percentage |-> human_percent],
         robot |-> [count |-> robot_count, percentage |-> robot_percent]]

analytics_confidence_distribution ==
    Read("GET /analytics/confidence-distribution", <<>>,
         confidence_distribution(get_all_predictions(rows, NoLimit)))

analytics_class_distribution ==
    Read("GET /analytics/class-distribution", <<>>,
         class_distribution(get_all_predictions(rows, NoLimit)))

\* Argument tuples on and next to the bucket edges, and the entry predict_batch
\* yields for an image that failed
Graded == { <<"e.jpg", "human", 90>>, <<"f.jpg", "robot", 75>>,
            <<"g.jpg", "human", 60>>, <<"h.jpg", "robot", 59>>,
            <<"c.jpg", "error", 0>> }

save_prediction_graded == save_prediction_of(Graded)

\* The store with the two analytics views read between the writes
NextViews ==
    \/ save_prediction_graded
    \/ delete_prediction
    \/ clear_all_predictions
    \/ analytics_confidence_distribution
    \/ analytics_class_distribution

SpecViews == Init /\ [][NextViews]_vars

CliVeryHigh == 90   \* if confidence > 0.9
CliHigh == 70       \* elif confidence > 0.7
CliModerate == 50   \* elif confidence > 0.5

\* The "Prediction strength:" line main() prints for a single image
prediction_strength(confidence) ==
    IF confidence > CliVeryHigh THEN "Very High"
    ELSE IF confidence > CliHigh THEN "High"
    ELSE IF confidence > CliModerate THEN "Moderate"
    ELSE "Low"

\* main() on an image file: class, confidence and strength as printed
main_single_image ==
    \E r \in RawScores :
        LET p == predict_single(r)
        IN  Resolve("main", r,
                    [predicted_class |-> p.predicted_class,
                     confidence |-> p.confidence,
                     strength |-> prediction_strength(p.confidence)])

\* Paths handed to predict_batch: two images, a file that fails
\* validate_image_format, one that passes it but cannot be loaded, and one on
\* which model.predict raises
ImagePaths ==
    { [path |-> "a.jpg", kind |-> "image", score |-> 80],
      [path |-> "b.jpg", kind |-> "image", score |-> 20],
      [path |-> "n.txt", kind |-> "invalid", score |-> 0],
      [path |-> "u.jpg", kind |-> "unreadable", score |-> 0],
      [path |-> "m.jpg", kind |-> "unclassifiable", score |-> 0] }

\* predict_single(image_path): validation, preprocessing and model.predict
\* may each raise before the score is turned into (class, confidence);
\* load_and_preprocess_image hands every failure on as ValueError
predict_single_path(f) ==
    IF f.kind = "invalid" THEN Raised("ValueError")
    ELSE IF f.kind = "unreadable" THEN Raised("ValueError")
    ELSE IF f.kind = "unclassifiable" THEN Raised("Exception")
    ELSE Returned(predict_single(f.score))

\* predict_batch that leaves out the paths whose prediction raised
RECURSIVE predict_batch_skipping(_)
predict_batch_skipping(image_paths) ==
    IF image_paths = <<>> THEN <<>>
    ELSE LET image_path == Head(image_paths)
             r == predict_single_path(image_path)
         IN  (IF r.raised = ""
              THEN <<(<<image_path.path, r.value.predicted_class,
                        r.value.confidence>>)>>
              ELSE <<>>)
                 \o predict_batch_skipping(Tail(image_paths))

RECURSIVE predict_batch(_)
predict_batch(image_paths) ==
    IF image_paths = <<>> THEN <<>>
    ELSE LET image_path == Head(image_paths)
             r == predict_single_path(image_path)
         IN  (IF r.raised = ""
              THEN <<(<<image_path.path, r.value.predicted_class,
                        r.value.confidence>>)>>
              ELSE <<(<<image_path.path, "error", 0>>)>>)
                 \o predict_batch(Tail(image_paths))

resolve_predict_batch ==
    \E image_paths \in SeqsUpTo(ImagePaths, MaxBatch) :
        /\ resolved' = [fn |-> "predict_batch", raw |-> image_paths,
                        out |-> predict_batch(image_paths)]
        /\ UNCHANGED <<storeVars, conns, evaluation, uploads>>

\* The predictor as the command line drives it
NextPredictor ==
    \/ main_single_image
    \/ resolve_predict_batch

SpecPredictor == Init /\ [][NextPredictor]_vars

----------------------------------------------------------------------------
(* Stores of more records than the page GET /history serves by default *)

\* save_batch_predictions on a fresh store with a list of one record less
\* than, as many as, or one more than the default page
save_batch_predictions_page ==
    \E n \in {DefaultLimit - 1, DefaultLimit, DefaultLimit + 1} :
        LET predictions == [i \in 1..n |-> IF i % 2 = 0
                                           THEN <<"a.jpg", "robot", 80>>
                                           ELSE <<"b.jpg", "human", 20>>]
            timestamp == isoformat(now)
            data == [i \in 1..Len(predictions) |->
                        <<predictions[i][1], predictions[i][2],
                          predictions[i][3], timestamp>>]
            tx == executemany(Db, data, 0)
            db == get_connection(Db, tx)
        IN  /\ sqlite_sequence = 0
            /\ call' = [name |-> "save_batch_predictions", args |-> predictions,
                        at |-> now]
            /\ rows' = db.rows
            /\ sqlite_sequence' = db.seq
            /\ assigned' = assigned \o IdsOf(tx.rows \ rows)
            /\ ret' = Returned(tx.rowcount)
            /\ UNCHANGED <<now, resolved, conns, evaluation, uploads>>

query_by_confidence_page ==
    \E lo \in {0, 50}, limit \in Limits \cup {<<DefaultLimit>>} :
        Read("get_predictions_by_confidence", <<lo, One, limit>>,
             get_predictions_by_confidence(rows, lo, One, limit))

query_history_page ==
    \E lo \in {0, 50}, limit \in {NoLimit, <<0>>, <<1>>} :
        Read("GET /history", <<lo, One, limit>>, history(rows, limit, lo, One))

NextPaging ==
    \/ save_batch_predictions_page
    \/ clear_all_predictions
    \/ query_all
    \/ query_by_confidence_page
    \/ query_history_page

SpecPaging == Init /\ [][NextPaging]_vars

----------------------------------------------------------------------------
(* POST /predict of src/api/app.py: upload, validation, prediction, store *)

ALLOWED_EXTENSIONS == {"png", "jpg", "jpeg", "gif", "bmp"}

\* What a request may carry in its 'file' field (nothing when kind is
\* "absent"): name, extension after the last dot, what the
\* content is (an image with its raw score, content that fails
\* validate_image_format, content on which predict_single raises), and the
\* name secure_filename makes of it
UploadedFiles ==
    { [filename |-> "a.jpg", ext |-> "jpg", kind |-> "image", score |-> 80,
       secure |-> "a.jpg"],
      [filename |-> "my cat.png", ext |-> "png", kind |-> "image", score |-> 20,
       secure |-> "my_cat.png"],
      [filename |-> "n.txt", ext |-> "txt", kind |-> "invalid", score |-> 0,
       secure |-> "n.txt"],
      [filename |-> "x.jpg", ext |-> "jpg", kind |-> "invalid", score |-> 0,
       secure |-> "x.jpg"],
      [filename |-> "u.jpg", ext |-> "jpg", kind |-> "unreadable", score |-> 0,
       secure |-> "u.jpg"],
      [filename |-> "", ext |-> "", kind |-> "invalid", score |-> 0,
       secure |-> ""],
      [filename |-> None, ext |-> "", kind |-> "absent", score |-> 0,
       secure |-> ""] }

allowed_file(file) == file.ext \in ALLOWED_EXTENSIONS

secure_filename(file) == file.secure

\* f"{timestamp}_{filename}" with timestamp = strftime("%Y%m%d_%H%M%S"): the
\* clock to the second
unique_filename(t, filename) == ToString(t \div SubSec) \o "_" \o filename

Response(status, body) == Returned([status |-> status, body |-> body])

\* The handler predict() step by step: between two steps the clock may move
\* on and another request may run. A request in progress is a caller with op
\* "POST /predict": params holds the file, todo the name of its upload
Respond(c, file, response) ==
    /\ conns' = [conns EXCEPT ![c] = Idle]
    /\ call' = [name |-> "POST /predict", args |-> <<file>>, at |-> now]
    /\ ret' = response

InProgress == Cardinality({c \in Callers : conns[c].op = "POST /predict"})

\* The request arrives
predict_request(c) ==
    \E file \in UploadedFiles :
        /\ conns[c].pc = "idle"
        /\ sqlite_sequence + InProgress < MaxId
        /\ conns' = [conns EXCEPT ![c] = [Idle EXCEPT !.pc = "received",
                                                        !.op = "POST /predict",
                                                        !.params = <<file>>]]
        /\ UNCHANGED <<rows, sqlite_sequence, now, assigned, call, ret, resolved,
                       evaluation, uploads>>

\* The checks of the request, then secure_filename and datetime.now() for
\* unique_filename: the name is fixed here, the file is not yet written
predict_name(c) ==
    LET file == conns[c].params[1]
        filename == unique_filename(now, secure_filename(file))
    IN  /\ conns[c].pc = "received"
        /\ UNCHANGED <<rows, sqlite_sequence, now, assigned, resolved, evaluation,
                       uploads>>
        /\ IF file.kind = "absent"
           THEN Respond(c, file, Response(400, [error |-> "No file provided"]))
           ELSE IF file.filename = ""
           THEN Respond(c, file, Response(400, [error |-> "No file selected"]))
           ELSE IF ~allowed_file(file)
           THEN Respond(c, file, Response(400, [error |-> "Invalid file type"]))
           ELSE /\ conns' = [conns EXCEPT ![c].pc = "named", ![c].todo = <<filename>>]
                /\ UNCHANGED <<call, ret>>

\* file.save(filepath) under the name fixed before: the clock may have moved
\* on and another request may have run since
predict_save(c) ==
    LET filename == conns[c].todo[1]
    IN  /\ conns[c].pc = "named"
        /\ uploads' = uploads \cup {filename}
        /\ conns' = [conns EXCEPT ![c].pc = "saved"]
        /\ UNCHANGED <<rows, sqlite_sequence, now, assigned, call, ret, resolved,
                       evaluation>>

\* validate_image_format(filepath): False for content that is no image and
\* for a file that is no longer there (another request saved under the same
\* name has removed it)
predict_validate(c) ==
    LET file == conns[c].params[1]
        filename == conns[c].todo[1]
    IN  /\ conns[c].pc = "saved"
        /\ conns' = [conns EXCEPT ![c].pc =
                        IF file.kind = "invalid" \/ filename \notin uploads
                        THEN "removing" ELSE "validated"]
        /\ UNCHANGED <<rows, sqlite_sequence, now, assigned, call, ret, resolved,
                       evaluation, uploads>>

\* os.remove(filepath) and the 400 response; FileNotFoundError when the file
\* is gone, which the handler's except turns into the 500 response
predict_remove(c) ==
    LET file == conns[c].params[1]
        filename == conns[c].todo[1]
    IN  /\ conns[c].pc = "removing"
        /\ uploads' = uploads \ {filename}
        /\ Respond(c, file,
                   IF filename \in uploads
                   THEN Response(400, [error |-> "Invalid or corrupted image file"])
                   ELSE Response(500, [error |-> "Prediction failed"]))
        /\ UNCHANGED <<rows, sqlite_sequence, now, assigned, resolved, evaluation>>

\* predictor.predict_single(filepath), which raises when the file is gone or
\* cannot be classified, then the entry of database.save_prediction: it reads
\* datetime.now() for the record before it opens its connection
predict_classify(c) ==
    LET file == conns[c].params[1]
        filename == conns[c].todo[1]
        p == IF filename \in uploads THEN predict_single_path(file)
             ELSE Raised("ValueError")
    IN  /\ conns[c].pc = "validated"
        /\ UNCHANGED <<rows, sqlite_sequence, now, assigned, resolved, evaluation,
                       uploads>>
        /\ IF p.raised # ""
           THEN Respond(c, file, Response(500, [error |-> "Prediction failed"]))
           ELSE /\ conns' = [conns EXCEPT ![c].pc = "storing",
                                          ![c].timestamp = isoformat(now),
                                          ![c].out = p.value]
                /\ UNCHANGED <<call, ret>>

\* The INSERT and commit of save_prediction, and the response; store_fails is
\* sqlite3.Error raised inside save_prediction (the write lock not had in
\* time, say). Every exception ends in the 500 response
predict_store(c) ==
    \E store_fails \in BOOLEAN :
        LET file == conns[c].params[1]
            filename == conns[c].todo[1]
            p == conns[c].out
            insert == sql_insert(Db, filename, p.predicted_class, p.confidence,
                                 conns[c].timestamp)
            tx == IF store_fails THEN sqlite3_Error(Db, insert, FALSE) ELSE insert
            db == get_connection(Db, tx)
        IN  /\ conns[c].pc = "storing"
            /\ UNCHANGED <<now, resolved, evaluation, uploads>>
            /\ rows' = db.rows
            /\ sqlite_sequence' = db.seq
            /\ assigned' = IF tx.ok THEN Append(assigned, tx.lastrowid)
                                    ELSE assigned
            /\ Respond(c, file,
                   IF tx.ok
                   THEN Response(200,
                            [success |-> TRUE, filename |-> filename,
                             predicted_class |-> p.predicted_class,
                             confidence |-> p.confidence])
                   ELSE Response(500, [error |-> "Prediction failed"]))

NextPredict ==
    \/ Tick
    \/ \E c \in Callers :
           \/ predict_request(c)
           \/ predict_name(c)
           \/ predict_save(c)
           \/ predict_validate(c)
           \/ predict_remove(c)
           \/ predict_classify(c)
           \/ predict_store(c)

SpecPredict == Init /\ [][NextPredict]_vars

----------------------------------------------------------------------------
(* The claims about the program, each with a state in which its case occurs *)

RangeOf(q) == {q[i] : i \in 1..Len(q)}

Resolvers == {"predict_single", "predict_from_array",
              "get_prediction_with_probabilities"}

\* C1: for every raw score r in [0,1] each entry point labels r robot exactly
\* when r > 0.5 and human otherwise (so 0.5 is human), and the three entry
\* points give r the same label.
C1_LabelRule ==
    resolved.fn \in Resolvers =>
        LET r == resolved.raw
            label == resolved.out.predicted_class
        IN  /\ label \in {"human", "robot"}
            /\ (label = "robot") <=> (2 * r > 100)
            /\ (2 * r = 100) => label = "human"
            /\ predict_single(r).predicted_class = label
            /\ predict_from_array(r).predicted_class = label
            /\ get_prediction_with_probabilities(r).predicted_class = label

C1_Witness ==
    /\ resolved.fn = "predict_single"
    /\ 2 * resolved.raw = 100
    /\ resolved.out.predicted_class = "human"

\* C3: after any sequence of insert, insertBatch, delete and clear the ids in
\* the store are pairwise distinct, and every id an insert assigns is greater
\* than every id assigned before it, deleted and cleared ones included.
C3_IdsUniqueIncreasing ==
    /\ \A a \in rows, b \in rows : a.id = b.id => a = b
    /\ \A i \in 1..Len(assigned), j \in 1..Len(assigned) :
           i < j => assigned[i] < assigned[j]
    /\ \A r \in rows : r.id \in RangeOf(assigned)

\* an insert ran after the record holding the largest id so far was removed
C3_Witness ==
    /\ Len(assigned) >= 2
    /\ call.name = "save_prediction"
    /\ ret.raised = ""
    /\ \A r \in rows : r.id = ret.value
    /\ rows # {}

\* C4: an insert followed at once by the unfiltered, unbounded query returns
\* the records that were there before plus exactly one new record, which has
\* the filename, class and confidence of the insert's arguments, the id the
\* insert returned and a store-assigned timestamp not earlier than the start
\* of the insert; on an empty store the query returns that one record alone.
C4_InsertThenQuery ==
    [][(save_prediction /\ ret'.raised = "") =>
        LET before == get_all_predictions(rows, NoLimit)
            after == get_all_predictions(rows', NoLimit)
            new == RangeOf(after) \ RangeOf(before)
        IN  /\ Len(after) = Len(before) + 1
            /\ RangeOf(before) \subseteq RangeOf(after)
            /\ Cardinality(new) = 1
            /\ \A r \in new :
                   /\ r.filename = call'.args[1]
                   /\ r.predicted_class = call'.args[2]
                   /\ r.confidence = call'.args[3]
                   /\ r.id = ret'.value
                   /\ ~TextLess(r.timestamp, isoformat(call'.at))
                   /\ r.timestamp = isoformat(now)
            /\ rows = {} => Len(after) = 1
      ]_vars

\* the store held a record, and an insert added a second one
C4_Witness ==
    /\ call.name = "save_prediction"
    /\ ret.raised = ""
    /\ Cardinality(rows) >= 2
    /\ \E r \in rows : r.id = ret.value /\ r.filename = call.args[1]

ReadNames == {"get_all_predictions", "get_predictions_by_class",
              "get_predictions_by_date_range", "get_predictions_by_confidence"}

\* C5: every query of the store (unfiltered, by class, by date range, by
\* confidence range) returns its records by timestamp descending: of two
\* adjacent records the first one's timestamp is not less than the second's.
C5_NewestFirst ==
    call.name \in ReadNames =>
        \A i \in 1..(Len(ret.value) - 1) :
            ~TextLess(ret.value[i].timestamp, ret.value[i + 1].timestamp)

\* a filtered query returned two records of different timestamps, one of them
\* written on a whole second (no sub-second field)
C5_Witness ==
    /\ call.name = "get_predictions_by_class"
    /\ Len(ret.value) >= 2
    /\ Len(ret.value[1].timestamp) # Len(ret.value[2].timestamp)

Clamp01(x) == IF x < 0 THEN 0 ELSE IF x > 100 THEN 100 ELSE x

\* C6: for min <= max the unbounded confidence-range query returns exactly
\* the records whose confidence c has clamp(min) <= c <= clamp(max), both ends
\* included, where clamp limits a bound to [0,1]: no matching record is left
\* out and no other record is returned.
C6_ConfidenceRange ==
    (/\ call.name = "get_predictions_by_confidence"
     /\ call.args[3] = NoLimit
     /\ call.args[1] <= call.args[2]) =>
        LET matching == {r \in rows : /\ Clamp01(call.args[1]) <= r.confidence
                                      /\ r.confidence <= Clamp01(call.args[2])}
        IN  /\ RangeOf(ret.value) = matching
            /\ Len(ret.value) = Cardinality(matching)

\* a range whose lower end is the confidence of a stored record returned that
\* record and left a record of lower confidence out
C6_Witness ==
    /\ call.name = "get_predictions_by_confidence"
    /\ call.args = <<80, 150, NoLimit>>
    /\ \E r \in RangeOf(ret.value) : r.confidence = 80
    /\ \E r \in rows : r.confidence = 20

\* C7: the confidence-range query with (min=a, max=b) returns the same result
\* as the query with (min=b, max=a), for every store state and all a, b.
C7_SwapInvariant ==
    call.name = "get_predictions_by_confidence" =>
        ret.value = get_predictions_by_confidence(rows, call.args[2],
                                                  call.args[1], call.args[3])

\* C8: delete(id) returns true exactly when a record with that id is in the
\* store; after true that record is gone and every other record is as it was;
\* after false the store is as it was and nothing is raised (so deleting an
\* absent id again returns false again); the HTTP handler answers 200 / 404
\* accordingly.
C8_Delete ==
    [][/\ delete_prediction =>
            LET id == call'.args[1]
                present == \E r \in rows : r.id = id
            IN  /\ ret'.raised = ""
                /\ ret'.value = present
                /\ ret'.value => rows' = {r \in rows : r.id # id}
                /\ ~ret'.value => rows' = rows
                /\ \A r \in rows' : r.id # id
       /\ api_delete_prediction =>
            LET id == call'.args[1]
                present == \E r \in rows : r.id = id
            IN  /\ ret'.value.success = present
                /\ ret'.value.status = (IF present THEN 200 ELSE 404)
                /\ rows' = {r \in rows : r.id # id}
      ]_vars

\* a delete returned true and left another record, of a smaller id, in place
C8_Witness ==
    /\ call.name = "delete_prediction"
    /\ ret.value = TRUE
    /\ \E r \in rows : r.id < call.args[1]

\* C9: clear() leaves the store empty and returns the number of records that
\* were in it just before; on an empty store it returns 0 and raises nothing.
C9_Clear ==
    [][clear_all_predictions =>
        /\ rows' = {}
        /\ ret'.raised = ""
        /\ ret'.value = Cardinality(rows)
        /\ rows = {} => ret'.value = 0
      ]_vars

C9_Witness ==
    /\ call.name = "clear_all_predictions"
    /\ ret.value >= 2
    /\ rows = {}

\* C10: insertBatch returns exactly the number of records it added: the
\* record count grows by the returned value, each added record carries the
\* filename, class and confidence of one input tuple with an id and the
\* timestamp of the batch (none is partially written), a batch of n tuples
\* that succeeds adds n records and returns n, and an empty batch returns 0.
C10_Batch ==
    [][save_batch_predictions =>
        LET predictions == call'.args
            added == rows' \ rows
        IN  /\ rows \subseteq rows'
            /\ \A r \in added :
                   /\ \E i \in 1..Len(predictions) :
                          /\ r.filename = predictions[i][1]
                          /\ r.predicted_class = predictions[i][2]
                          /\ r.confidence = predictions[i][3]
                   /\ r.filename # None /\ r.predicted_class # None
                   /\ r.timestamp = isoformat(now)
                   /\ r.id > sqlite_sequence
            /\ ret'.raised = "" =>
                   /\ ret'.value = Cardinality(added)
                   /\ ret'.value = Len(predictions)
                   /\ Cardinality(rows') = Cardinality(rows) + ret'.value
                   /\ \A i \in 1..Len(predictions) :
                          \E r \in added :
                              /\ r.id = sqlite_sequence + i
                              /\ r.filename = predictions[i][1]
                              /\ r.predicted_class = predictions[i][2]
                              /\ r.confidence = predictions[i][3]
            /\ predictions = <<>> => (ret'.raised = "" /\ ret'.value = 0)
      ]_vars

\* a batch of two tuples was written and 2 was returned
C10_Witness ==
    /\ call.name = "save_batch_predictions"
    /\ ret.raised = ""
    /\ ret.value = 2
    /\ Len(call.args) = 2
    /\ Cardinality(rows) >= 2

RECURSIVE SumOver(_, _)
SumOver(f, D) ==
    IF D = {} THEN 0
    ELSE LET c == CHOOSE c \in D : TRUE
         IN  f[c] + SumOver(f, D \ {c})

\* C11: statistics() of a store state (the store the call has before it from
\* its first SELECT to its last) returns a total equal to the number of stored records and
\* a per-class map whose keys are exactly the classes that occur, each with
\* the number of its records, so the counts sum to the total; on the empty
\* store the total is 0, the map is empty, the average is null and the
\* 24-hour count is 0
C11_Statistics ==
    [][\A reader \in Callers :
          (select_recent(reader) /\ conns[reader].seen = {Db}) =>
              LET st == ret'.value
                  by_class == st.predictions_by_class
              IN  /\ st.total_predictions = Cardinality(rows)
                  /\ DOMAIN by_class = {r.predicted_class : r \in rows}
                  /\ \A c \in DOMAIN by_class :
                         /\ by_class[c] = Cardinality({r \in rows :
                                                          r.predicted_class = c})
                         /\ by_class[c] > 0
                  /\ SumOver(by_class, DOMAIN by_class) = st.total_predictions
                  /\ rows = {} =>
                         /\ st.total_predictions = 0
                         /\ DOMAIN by_class = {}
                         /\ st.average_confidence = NoAverage
                         /\ st.recent_predictions_24h = 0]_vars

\* Statistics of a store that lost its first record and holds one class only
C11_Witness ==
    /\ call.name = "get_statistics"
    /\ Cardinality(rows) = 2
    /\ \A r \in rows : r.id > 1
    /\ DOMAIN ret.value.predictions_by_class = {"robot"}
    /\ ret.value.predictions_by_class["robot"] = 2

\* The instant at which a stored timestamp was written, in clock ticks
InsertionInstant(timestamp) ==
    (timestamp[1] * DaySecs + timestamp[3]) * SubSec
        + (IF Len(timestamp) > 3 THEN timestamp[5] ELSE 0)

\* C12: the 24-hour count of statistics() is the number of records inserted
\* within the 24 hours before the call: every record younger than 24 hours is
\* counted and no record older than 24 hours is (the local clock being UTC)
C12_Recent24h ==
    (call.name = "get_statistics" /\ call.args[1] = 0) =>
        LET age(r) == call.at - InsertionInstant(r.timestamp)
            day == DaySecs * SubSec
        IN  /\ Cardinality({r \in rows : age(r) < day})
                   <= ret.value.recent_predictions_24h
            /\ ret.value.recent_predictions_24h
                   <= Cardinality({r \in rows : age(r) <= day})

\* C13: when the storage layer fails during insert, insertBatch, delete or
\* clear, the store afterwards holds what it held before the operation (no
\* record of a failed batch remains) and the caller gets the error; the same
\* holds for a batch that SQLite rejects because one tuple is invalid
C13_Rollback ==
    [][/\ (\/ save_prediction_error
           \/ save_batch_predictions_error
           \/ delete_prediction_error
           \/ clear_all_predictions_error)
          => /\ rows' = rows
             /\ sqlite_sequence' = sqlite_sequence
             /\ ret'.raised # ""
       /\ (\/ save_prediction /\ call'.args[1] = None
           \/ /\ save_batch_predictions
              /\ \E i \in 1..Len(call'.args) : call'.args[i][1] = None)
          => /\ rows' = rows
             /\ sqlite_sequence' = sqlite_sequence
             /\ ret'.raised # ""]_vars

\* A batch of two that failed after its first INSERT, over a store that held
\* one record: that record is still the only one
C13_Witness ==
    /\ call.name = "save_batch_predictions"
    /\ Len(call.args) = 2
    /\ ret.raised = "OperationalError"
    /\ Cardinality(rows) = 1
    /\ sqlite_sequence = 1

\* C16: a record never changes while it is in the store: every record that
\* carries an id handed out before a step is, after the step, the record it
\* was before, and ids handed out once are never handed out again, so a
\* record can only disappear
C16_Immutable ==
    [][/\ sqlite_sequence' >= sqlite_sequence
       /\ \A r \in rows : r.id <= sqlite_sequence
       /\ \A r \in rows' : r.id <= sqlite_sequence => r \in rows]_vars

\* The same file stored a second time at a later instant: both records are in
\* the store, the older one as it was
C16_Witness ==
    /\ call.name = "save_prediction"
    /\ ret.raised = ""
    /\ \E r1 \in rows, r2 \in rows :
           /\ r1.id < r2.id
           /\ r1.filename = r2.filename
           /\ r1.timestamp # r2.timestamp
           /\ r2.id = ret.value

\* C17: every stored record has predicted_class in {human, robot} and a
\* confidence in [0,1], whatever insert and insertBatch were handed
C17_StoredDomain ==
    \A r \in rows :
        /\ r.predicted_class \in Labels
        /\ Zero <= r.confidence
        /\ r.confidence <= One

\* C14: with one writer and concurrent readers, every read returns the store
\* as it was at one moment, before or after the write: the result of a read
\* is the result of that read on one of the committed stores the reader has
\* had before it
C14_ReadsAtomic ==
    [][/\ \A c \in Callers :
              select_recent(c) =>
                  \E table \in conns[c].seen :
                      ret'.value = get_statistics(table.rows,
                                                  now - call'.args[1] * SubSec)
       /\ (call'.name = "get_all_predictions" /\ UNCHANGED <<rows, conns>>) =>
              ret'.value = get_all_predictions(rows, call'.args[1])]_vars

\* One call run alone on the store db: the store it leaves and what it hands
\* back, or the exception it raises
Alone(db, conn) ==
    LET data == conn.params
        stamp == conn.timestamp
        tx == IF conn.op = "save_prediction"
              THEN sql_insert(db, data[1], data[2], data[3], stamp)
              ELSE IF conn.op = "save_batch_predictions"
              THEN executemany(db, [i \in 1..Len(data) |->
                                       <<data[i][1], data[i][2], data[i][3], stamp>>], 0)
              ELSE IF conn.op = "delete_prediction"
              THEN sql_delete_by_id(db, data[1])
              ELSE sql_delete_all(db)
    IN  [db |-> get_connection(db, tx),
         ret |-> IF ~tx.ok THEN Raised("IntegrityError")
                 ELSE IF conn.op = "save_prediction" THEN Returned(tx.lastrowid)
                 ELSE IF conn.op = "delete_prediction" THEN Returned(tx.rowcount > 0)
                 ELSE Returned(tx.rowcount)]

\* C15: concurrent insert, insertBatch, delete and clear calls leave the store
\* as if they had run one at a time, in the order of their commits: the call
\* that commits changes the committed store, and returns, exactly as it would
\* running alone on it; a call that raises changes nothing; an id that an
\* insert returns is new and its record is in the store
C15_Serializable ==
    [][\A c \in Callers :
          /\ commit(c) =>
                 LET alone == Alone(Db, conns[c])
                 IN  /\ rows' = alone.db.rows
                     /\ sqlite_sequence' = alone.db.seq
                     /\ ret' = alone.ret
                     /\ conns[c].op = "save_prediction" =>
                            /\ ret'.value \notin RangeOf(assigned)
                            /\ \A r \in rows : r.id # ret'.value
                            /\ \E r \in rows' :
                                   /\ r.id = ret'.value
                                   /\ r.filename = conns[c].params[1]
          /\ (execute(c) \/ busy_timeout(c)) =>
                 /\ rows' = rows
                 /\ sqlite_sequence' = sqlite_sequence]_vars

\* Two inserts in flight at once, both committed: the one that entered second
\* got the write lock first, and both records are in the store
C15_Witness ==
    /\ call.name = "save_prediction"
    /\ ret = Returned(2)
    /\ assigned = <<1, 2>>
    /\ \E r1 \in rows, r2 \in rows :
           /\ r1.id = 1 /\ r1.filename = "b.jpg"
           /\ r2.id = 2 /\ r2.filename = "a.jpg"
    /\ conns["c1"].pc = "connected"
    /\ conns["c1"].op = "delete_prediction"

\* The images of a class directory of the corpus that the classifier labels p
Processed(c, p) ==
    LET files == evaluation.corpus[c].files
    IN  {i \in 1..Len(files) :
            /\ files[i].kind = "image"
            /\ (files[i].score > Threshold) = (p = "robot")}

ProcessedCount ==
    Cardinality(Processed("human", "human")) + Cardinality(Processed("human", "robot"))
        + Cardinality(Processed("robot", "human"))
        + Cardinality(Processed("robot", "robot"))

\* An evaluation has produced a result
Evaluated ==
    \/ evaluation.via = "evaluate_on_test_set" /\ evaluation.raised = ""
    \/ evaluation.via = "POST /analytics/evaluate" /\ evaluation.status = 200

\* C18: in an evaluation result the confusion matrix over [human, robot] has
\* at [i][j] the number of processed samples of true label i predicted as j,
\* and the accuracy is (matrix[0][0] + matrix[1][1]) over the number of
\* processed samples
C18_ConfusionMatrix ==
    Evaluated =>
        LET v == evaluation.value
            labels == v.confusion_matrix.labels
            matrix == v.confusion_matrix.matrix
        IN  /\ labels = <<"human", "robot">>
            /\ \A i \in 1..2, j \in 1..2 :
                   matrix[i][j] = Cardinality(Processed(labels[i], labels[j]))
            /\ ProcessedCount >= 1
            /\ v.accuracy[2] > 0
            /\ v.accuracy[1] * ProcessedCount
                   = (matrix[1][1] + matrix[2][2]) * v.accuracy[2]

\* Humans scored 0.6 and 0.2, robots 0.8 and 0.9: [[1,1],[0,2]], accuracy 3/4
C18_Witness ==
    /\ evaluation.via = "evaluate_on_test_set"
    /\ evaluation.corpus.human.files
           = <<[kind |-> "image", score |-> 60], [kind |-> "image", score |-> 20]>>
    /\ evaluation.corpus.robot.files
           = <<[kind |-> "image", score |-> 80], [kind |-> "image", score |-> 90]>>
    /\ evaluation.value.confusion_matrix.matrix = << <<1, 1>>, <<0, 2>> >>
    /\ evaluation.value.accuracy = <<3, 4>>

\* C19: for each class of an evaluation result, precision is TP/(TP+FP) and
\* recall TP/(TP+FN), each 0 when its denominator is 0; F1 is the harmonic
\* mean of the two, 0 when both are 0; support is the number of processed
\* samples of that true class
C19_PerClassMetrics ==
    Evaluated =>
        \A c \in Labels :
            LET o == CHOOSE x \in Labels : x # c
                m == evaluation.value.per_class_metrics[c]
                TP == Cardinality(Processed(c, c))
                FP == Cardinality(Processed(o, c))
                FN == Cardinality(Processed(c, o))
                p == m.precision
                r == m.recall
                f == m.f1_score
            IN  /\ p[2] > 0 /\ r[2] > 0 /\ f[2] > 0
                /\ IF TP + FP = 0 THEN p[1] = 0 ELSE p[1] * (TP + FP) = TP * p[2]
                /\ IF TP + FN = 0 THEN r[1] = 0 ELSE r[1] * (TP + FN) = TP * r[2]
                /\ IF p[1] = 0 /\ r[1] = 0 THEN f[1] = 0
                   ELSE f[1] * (p[1] * r[2] + r[1] * p[2]) = 2 * p[1] * r[1] * f[2]
                /\ m.support = TP + FN

\* No robot in the corpus and none predicted, one human taken for a human and
\* one for a robot: the robot class has support 0, recall 0 and F1 0
C19_Witness ==
    /\ evaluation.via = "evaluate_on_test_set"
    /\ evaluation.raised = ""
    /\ ~evaluation.corpus.robot.exists
    /\ Cardinality(Processed("human", "human")) = 1
    /\ Cardinality(Processed("human", "robot")) = 1
    /\ evaluation.value.per_class_metrics["robot"].support = 0
    /\ evaluation.value.per_class_metrics["robot"].recall[1] = 0
    /\ evaluation.value.per_class_metrics["robot"].precision[1] = 0
    /\ evaluation.value.per_class_metrics["human"].precision = <<1, 1>>
    /\ evaluation.value.per_class_metrics["human"].recall = <<1, 2>>

\* C20: the evaluation raises its no-valid-images error exactly when no sample
\* was processed; with one sample or more it returns a result over exactly
\* the processed samples, also when a class directory is missing or empty.
\* The handler answers 404 without a test_dir, 500 for the error, else 200
C20_EmptyCorpus ==
    /\ evaluation.via = "evaluate_on_test_set" =>
           /\ evaluation.raised = "ValueError" <=> ProcessedCount = 0
           /\ evaluation.raised = "" <=> ProcessedCount >= 1
    /\ evaluation.via = "POST /analytics/evaluate" =>
           /\ evaluation.status = 404 <=> ~evaluation.corpus.exists
           /\ evaluation.status = 500 <=>
                  evaluation.corpus.exists /\ ProcessedCount = 0
           /\ evaluation.status = 200 <=> ProcessedCount >= 1
    /\ Evaluated =>
           /\ evaluation.value.total_samples = ProcessedCount
           /\ Len(evaluation.value.detailed_results) = ProcessedCount
           /\ evaluation.value.human_samples
                  = Cardinality(Processed("human", "human"))
                        + Cardinality(Processed("human", "robot"))
           /\ evaluation.value.robot_samples
                  = Cardinality(Processed("robot", "human"))
                        + Cardinality(Processed("robot", "robot"))

\* The human directory is missing and the robot directory holds one image
\* next to a file that is skipped: a result with no human sample
C20_Witness ==
    /\ evaluation.via = "evaluate_on_test_set"
    /\ evaluation.raised = ""
    /\ ~evaluation.corpus.human.exists
    /\ Len(evaluation.corpus.robot.files) = 2
    /\ evaluation.corpus.robot.files[1].kind = "unreadable"
    /\ evaluation.value.total_samples = 1
    /\ evaluation.value.human_samples = 0

\* The files of the corpus that os.listdir enumerates
EnumeratedFiles ==
    Cardinality({i \in 1..Len(evaluation.corpus.human.files) :
                    evaluation.corpus.human.files[i].kind # "directory"})
        + Cardinality({i \in 1..Len(evaluation.corpus.robot.files) :
                          evaluation.corpus.robot.files[i].kind # "directory"})

\* The per-item entries of an evaluation result that stand for a file that
\* was not processed
ReportedSkips ==
    Len(evaluation.value.detailed_results) - evaluation.value.total_samples

\* C21: no file of the corpus drops out of an evaluation unseen: the processed
\* samples and the skips the result reports add up to the files enumerated
C21_SkipsReported ==
    Evaluated =>
        evaluation.value.total_samples + ReportedSkips = EnumeratedFiles

RECURSIVE SumScores(_, _)
SumScores(files, of) ==
    IF files = <<>> THEN 0
    ELSE (IF Head(files).kind # "image" THEN 0
          ELSE IF of = "robot" THEN Head(files).score
          ELSE One - Head(files).score)
             + SumScores(Tail(files), of)

\* C22: for each true label the average-probability pair of an evaluation
\* result is the mean of p_human = 1 - score and of p_robot = score over the
\* processed samples of that true label, and (0, 0) when there is none
C22_AverageProbabilities ==
    Evaluated =>
        \A t \in Labels, of \in Labels :
            LET a == evaluation.value.average_probabilities[t][of]
                files == evaluation.corpus[t].files
                n == Cardinality({i \in 1..Len(files) : files[i].kind = "image"})
            IN  /\ a[2] > 0
                /\ IF n = 0 THEN a[1] = 0
                   ELSE a[1] * n = SumScores(files, of) * a[2]

\* Humans scored 0.6 and 0.2 next to one robot scored 0.9: the human pair is
\* (1.2 / 2, 0.8 / 2), the robot pair (0.1, 0.9)
C22_Witness ==
    /\ evaluation.via = "evaluate_on_test_set"
    /\ evaluation.raised = ""
    /\ evaluation.corpus.human.files
           = <<[kind |-> "image", score |-> 60], [kind |-> "image", score |-> 20]>>
    /\ evaluation.corpus.robot.files = <<[kind |-> "image", score |-> 90]>>
    /\ evaluation.value.average_probabilities["human"]["human"] = <<120, 2>>
    /\ evaluation.value.average_probabilities["human"]["robot"] = <<80, 2>>
    /\ evaluation.value.average_probabilities["robot"]["robot"] = <<90, 1>>

\* The strength bucket of a confidence by its lower edges 0.90, 0.75, 0.60
BucketByEdges(c) ==
    IF c >= 90 THEN "very_high"
    ELSE IF c >= 75 THEN "high"
    ELSE IF c >= 60 THEN "moderate"
    ELSE "low"

\* C23: for every store snapshot the confidence-distribution view succeeds
\* and counts each record in exactly one bucket (very_high from 0.90, high
\* from 0.75, moderate from 0.60, low below); each overall bucket count is
\* the human count plus the robot count of that bucket, and the four bucket
\* counts sum to the reported total
C23_ConfidenceDistribution ==
    call.name = "GET /analytics/confidence-distribution" =>
        LET v == ret.value
        IN  /\ v.status = 200
            /\ v.total = Cardinality(rows)
            /\ \A b \in Buckets :
                   /\ v.distribution[b] =
                          Cardinality({r \in rows : BucketByEdges(r.confidence) = b})
                   /\ v.distribution[b] = v.by_class["human"][b] + v.by_class["robot"][b]
            /\ v.distribution["very_high"] + v.distribution["high"]
                   + v.distribution["moderate"] + v.distribution["low"] = v.total

\* C25: for every store snapshot the class-distribution view reports the
\* number of human and of robot records, percentages that sum to 100 when
\* total > 0 (human count + robot count = total), and 0 and 0 when total = 0
C25_ClassDistribution ==
    call.name = "GET /analytics/class-distribution" =>
        LET v == ret.value
            h == v.human.percentage
            r == v.robot.percentage
        IN  /\ v.human.count = Cardinality({x \in rows : x.predicted_class = "human"})
            /\ v.robot.count = Cardinality({x \in rows : x.predicted_class = "robot"})
            /\ v.total > 0 =>
                   /\ h[1] * r[2] + r[1] * h[2] = 100 * h[2] * r[2]
                   /\ v.human.count + v.robot.count = v.total
            /\ v.total = 0 => h[1] = 0 /\ r[1] = 0

\* The bucket of the analytics view that carries a strength the CLI prints
BucketOfStrength ==
    [s \in {"Very High", "High", "Moderate", "Low"} |->
        IF s = "Very High" THEN "very_high"
        ELSE IF s = "High" THEN "high"
        ELSE IF s = "Moderate" THEN "moderate"
        ELSE "low"]

\* C24: the strength the CLI prints for a confidence c is the bucket the
\* confidence-distribution view assigns to c, with lower edges inclusive
C24_SameBuckets ==
    resolved.fn = "main" =>
        BucketOfStrength[resolved.out.strength]
            = confidence_bucket(resolved.out.confidence)

\* C28: predict_batch returns one entry per input path, in input order; an
\* item whose validation, preprocessing or classification fails yields
\* (path, 'error', 0.0), and every other entry is what predict_single returns
\* for that item
C28_PredictBatch ==
    resolved.fn = "predict_batch" =>
        LET image_paths == resolved.raw
            results == resolved.out
        IN  /\ Len(results) = Len(image_paths)
            /\ \A i \in 1..Len(image_paths) :
                   LET f == image_paths[i]
                       p == predict_single(f.score)
                   IN  IF f.kind = "image"
                       THEN results[i] = <<f.path, p.predicted_class, p.confidence>>
                       ELSE results[i] = <<f.path, "error", 0>>

C28_Witness ==
    /\ resolved.fn = "predict_batch"
    /\ Len(resolved.raw) = 2
    /\ resolved.raw[1].kind = "unreadable"
    /\ resolved.raw[2].kind = "image"
    /\ resolved.out = <<(<<"u.jpg", "error", 0>>), (<<"a.jpg", "robot", 80>>)>>

\* The records of the store whose confidence lies in [lo, hi]
Matching(lo, hi) == {r \in rows : r.confidence >= lo /\ r.confidence <= hi}

\* C26: a query with the limit absent returns every matching record, however
\* many are stored, both directly against the store and through the history
\* operation without a limit parameter
C26_AbsentLimitUnbounded ==
    /\ (call.name = "get_all_predictions" /\ call.args[1] = NoLimit) =>
           Len(ret.value) = Cardinality(rows)
    /\ (call.name = "get_predictions_by_confidence" /\ call.args[3] = NoLimit) =>
           Len(ret.value) = Cardinality(Matching(call.args[1], call.args[2]))
    /\ (call.name = "GET /history" /\ call.args[3] = NoLimit) =>
           Len(ret.value.predictions)
               = Cardinality(Matching(call.args[1], call.args[2]))

\* C27: for every integer limit n, 0 included, get_all_predictions(limit=n) and
\* get_predictions_by_confidence(limit=n) return at most n records, the first
\* n of the result of the same query without a limit
C27_LimitIsUpperBound ==
    /\ (call.name = "get_all_predictions" /\ call.args[1] # NoLimit) =>
           LET n == call.args[1][1]
               unlimited == get_all_predictions(rows, NoLimit)
           IN  /\ Len(ret.value) <= n
               /\ ret.value = SubSeq(unlimited, 1, Min(n, Len(unlimited)))
    /\ (call.name = "get_predictions_by_confidence" /\ call.args[3] # NoLimit) =>
           LET n == call.args[3][1]
               unlimited == get_predictions_by_confidence(rows, call.args[1],
                                                          call.args[2], NoLimit)
           IN  /\ Len(ret.value) <= n
               /\ ret.value = SubSeq(unlimited, 1, Min(n, Len(unlimited)))

\* C30: under any interleaving of concurrent save_prediction and
\* save_batch_predictions calls id order agrees with timestamp order: of two
\* stored records the one with the smaller id has no later timestamp
C30_IdOrderIsTimestampOrder ==
    \A a \in rows, b \in rows :
        a.id < b.id => TextLeq(a.timestamp, b.timestamp)

\* C29: a predict request that ends in an error adds no record to the store
\* and leaves no uploaded file of that request in the upload folder; a
\* successful request adds exactly one record, whose class and confidence
\* are those of the response
C29_NoPartialState ==
    [][\A c \in Callers :
          (conns[c].op = "POST /predict" /\ conns'[c].pc = "idle") =>
              LET response == ret'.value
                  saved == {conns[c].todo[i] : i \in 1..Len(conns[c].todo)}
                  others == {conns'[o].todo :
                                o \in {o \in Callers \ {c} :
                                          conns'[o].pc \notin {"idle", "received",
                                                               "named"}}}
              IN  IF response.status = 200
                  THEN \E r \in rows' :
                           /\ r \notin rows
                           /\ rows' = rows \cup {r}
                           /\ r.predicted_class = response.body.predicted_class
                           /\ r.confidence = response.body.confidence
                  ELSE /\ rows' = rows
                       /\ \A filename \in saved :
                              \/ filename \notin uploads'
                              \/ <<filename>> \in others]_vars

\* C2: the resolved confidence is r when the label is robot and 1 - r when it
\* is human, hence never below 0.5, and exactly 0.5 with label human at
\* r = 0.5; resolve(0.9) = (robot, 0.9) and resolve(0.1) = (human, 0.9).
C2_Confidence ==
    resolved.fn \in Resolvers =>
        LET r == resolved.raw
            label == resolved.out.predicted_class
            confidence == resolved.out.confidence
        IN  /\ label = "robot" => confidence = r
            /\ label = "human" => confidence = 100 - r
            /\ 2 * confidence >= 100
            /\ (2 * r = 100) => (2 * confidence = 100 /\ label = "human")
            /\ r = 90 => (label = "robot" /\ confidence = 90)
            /\ r = 10 => (label = "human" /\ confidence = 90)

C2_Witness ==
    /\ resolved.fn = "get_prediction_with_probabilities"
    /\ resolved.raw = 10
    /\ resolved.out.predicted_class = "human"
    /\ resolved.out.confidence = 90

====
